---- MODULE Spec2Model ----
(***************************************************************************)
(* Reservoir SDK: Route construction and mid price, Router call encoding   *)
(* and Fetcher pair discovery, modelled from router.ts, route.ts and       *)
(* fetcher.ts.                                                             *)
(***************************************************************************)
EXTENDS Integers, Sequences, FiniteSets, TLC

VARIABLES
  rPairs, rInput, rOutput,   \* arguments of new Route(pairs, input, output)
  route,                     \* <<>> or <<the constructed Route>>
  routeError,                \* "" or the invariant message the constructor threw
  rpc,                       \* "new" before the constructor ran, "done" after
  midReads,                  \* the values returned by the reads of route.midPrice
  trade, options,            \* arguments of Router.swapCallParameters
  swapResult,                \* <<>> or <<the returned SwapParameters>>
  swapError,                 \* "" or the message swapCallParameters threw
  spc,                       \* "call" before swapCallParameters ran, "done" after
  fOp, fArgs,                \* the Fetcher method called and its arguments
  fpc,                       \* where the call stands: the await it is suspended at
  fK,                        \* fetchRelevantPairs: the _fetchPairIfExists call in progress
  slots,                     \* fetchRelevantPairs: the results awaited so far, in call order
  frame,                     \* <<>> or <<the locals of the running fetchPairData>>
  fResult,                   \* <<>> or <<the value the call resolved to>>
  fError,                    \* "" or the message the call rejected with
  created,                   \* the pools the factory has created
  creations,                 \* pools created while the call was running
  calls,                     \* the contract reads that have been answered, in order
  promises                   \* the swapFee() reads issued: pending or fulfilled

routeVars == <<rPairs, rInput, rOutput, route, routeError, rpc, midReads>>
routerVars == <<trade, options, swapResult, swapError, spc>>
fetcherVars == <<fOp, fArgs, fpc, fK, slots, frame, fResult, fError, created, creations,
                 calls, promises>>
vars == <<routeVars, routerVars, fetcherVars>>

(***************************************************************************)
(* Bounds                                                                  *)
(***************************************************************************)
MaxHops == 2      \* longest pair list handed to the Route constructor
MaxReads == 2     \* reads of route.midPrice per Route
MaxCreations == 1 \* pools the factory creates while a Fetcher call is running

(***************************************************************************)
(* Tokens, currencies and pair snapshots                                   *)
(***************************************************************************)
MkToken(chainId, address) == [isNative |-> FALSE, chainId |-> chainId, address |-> address]
NativeOn(chainId) == [isNative |-> TRUE, chainId |-> chainId, address |-> 0]

\* chain 1: A < W < B by address, W the wrapped native token; chain 2: X < Y
TokA == MkToken(1, 1)
TokW == MkToken(1, 2)
TokB == MkToken(1, 3)
TokX == MkToken(2, 4)
TokY == MkToken(2, 5)
Tokens == {TokA, TokW, TokB, TokX, TokY}
Currencies == Tokens \cup {NativeOn(1)}

WETH9(chainId) == IF chainId = 1 THEN TokW ELSE TokX

\* Currency.wrapped: a token is its own wrapped form, the native asset wraps to WETH9
wrapped(currency) == IF currency.isNative THEN WETH9(currency.chainId) ELSE currency

\* Token.equals: same chain id and same address, and the other is a token
equals(a, b) == ~a.isNative /\ ~b.isNative /\ a.chainId = b.chainId /\ a.address = b.address

\* the value passed when a caller omits the output argument
Undefined == [isNative |-> FALSE, chainId |-> 0, address |-> 0]

ReserveChoices == {<<2, 3>>, <<5, 7>>}
StableSpotChoices == {<<101, 100>>}

\* Pair snapshot: token0 sorts before token1; the stable pair carries the spot
\* price its token0Price getter returns (numerator, denominator)
MkPair(t0, t1, curveId, r, sp) ==
  [token0 |-> t0, token1 |-> t1, chainId |-> t0.chainId, curveId |-> curveId,
   reserve0 |-> r[1], reserve1 |-> r[2], spot |-> sp]

PairValues ==
  { MkPair(t0, t1, 0, r, <<0, 0>>) :
      t0 \in Tokens, t1 \in Tokens, r \in ReserveChoices } \cup
  { MkPair(t0, t1, 1, r, sp) :
      t0 \in Tokens, t1 \in Tokens, r \in {<<5, 7>>}, sp \in StableSpotChoices }

Pairs == { p \in PairValues : /\ p.token0.chainId = p.token1.chainId
                              /\ p.token0.address < p.token1.address
                              /\ (p.chainId = 2 => p.curveId = 0 /\ p.reserve0 = 2) }

involvesToken(pair, token) == equals(token, pair.token0) \/ equals(token, pair.token1)

(***************************************************************************)
(* Price (numerator / denominator of quote per base)                       *)
(***************************************************************************)
\* new Price(baseCurrency, quoteCurrency, denominator, numerator)
Price(base, quote, denominator, numerator) ==
  [baseCurrency |-> base, quoteCurrency |-> quote,
   numerator |-> numerator, denominator |-> denominator]

\* Price.multiply: numerators and denominators multiply, base of the left, quote of the right
multiply(p, q) ==
  Price(p.baseCurrency, q.quoteCurrency, p.denominator * q.denominator, p.numerator * q.numerator)

token0Price(pair) == Price(pair.token0, pair.token1, pair.spot[2], pair.spot[1])
token1Price(pair) == Price(pair.token1, pair.token0, pair.spot[1], pair.spot[2])

(***************************************************************************)
(* Route                                                                   *)
(***************************************************************************)
\* buildPath with the ternary's branches exchanged: the token pushed is currentInput
RECURSIVE buildPathSameToken(_, _, _)
buildPathSameToken(pairs, i, path) ==
  IF i > Len(pairs) THEN [error |-> "", path |-> path]
  ELSE LET currentInput == path[i]
           pair == pairs[i]
       IN IF ~(equals(currentInput, pair.token0) \/ equals(currentInput, pair.token1))
          THEN [error |-> "PATH", path |-> path]
          ELSE buildPathSameToken(pairs, i + 1,
                 Append(path, IF equals(currentInput, pair.token0) THEN pair.token0 ELSE pair.token1))

\* the loop of the constructor from index i on, path being the tokens pushed so far
RECURSIVE buildPath(_, _, _)
buildPath(pairs, i, path) ==
  IF i > Len(pairs) THEN [error |-> "", path |-> path]
  ELSE LET currentInput == path[i]
           pair == pairs[i]
       IN IF ~(equals(currentInput, pair.token0) \/ equals(currentInput, pair.token1))
          THEN [error |-> "PATH", path |-> path]
          ELSE buildPath(pairs, i + 1,
                 Append(path, IF equals(currentInput, pair.token0) THEN pair.token1 ELSE pair.token0))

\* the constructor with the OUTPUT invariant placed before the INPUT invariant
RouteConstructorOutputFirst(pairs, input, output) ==
  IF ~(Len(pairs) > 0) THEN [error |-> "PAIRS", route |-> <<>>]
  ELSE IF ~(\A i \in 1..Len(pairs) : pairs[i].chainId = pairs[1].chainId)
  THEN [error |-> "CHAIN_IDS", route |-> <<>>]
  ELSE IF ~(output = Undefined \/ involvesToken(pairs[Len(pairs)], wrapped(output)))
  THEN [error |-> "OUTPUT", route |-> <<>>]
  ELSE IF ~involvesToken(pairs[1], wrapped(input)) THEN [error |-> "INPUT", route |-> <<>>]
  ELSE LET built == buildPath(pairs, 1, <<wrapped(input)>>)
       IN IF built.error # "" THEN [error |-> built.error, route |-> <<>>]
          ELSE [error |-> "",
                route |-> <<[pairs |-> pairs, path |-> built.path, input |-> input,
                             output |-> output, _midPrice |-> <<>>]>>]

\* new Route(pairs, input, output): the message of the invariant that threw, or ""
\* together with the fields of the Route
RouteConstructor(pairs, input, output) ==
  IF ~(Len(pairs) > 0) THEN [error |-> "PAIRS", route |-> <<>>]
  ELSE IF ~(\A i \in 1..Len(pairs) : pairs[i].chainId = pairs[1].chainId)
  THEN [error |-> "CHAIN_IDS", route |-> <<>>]
  ELSE IF ~involvesToken(pairs[1], wrapped(input)) THEN [error |-> "INPUT", route |-> <<>>]
  ELSE IF ~(output = Undefined \/ involvesToken(pairs[Len(pairs)], wrapped(output)))
  THEN [error |-> "OUTPUT", route |-> <<>>]
  ELSE LET built == buildPath(pairs, 1, <<wrapped(input)>>)
       IN IF built.error # "" THEN [error |-> built.error, route |-> <<>>]
          ELSE [error |-> "",
                route |-> <<[pairs |-> pairs, path |-> built.path, input |-> input,
                             output |-> output, _midPrice |-> <<>>]>>]

\* _getPrice without the orientation test: always the price of token0
_getPriceUnoriented(token, pair) ==
  IF pair.curveId = 0
  THEN Price(pair.token0, pair.token1, pair.reserve0, pair.reserve1)
  ELSE token0Price(pair)

\* Route._getPrice(token, pair)
_getPrice(token, pair) ==
  IF pair.curveId = 0
  THEN IF equals(token, pair.token0)
       THEN Price(pair.token0, pair.token1, pair.reserve0, pair.reserve1)
       ELSE Price(pair.token1, pair.token0, pair.reserve1, pair.reserve0)
  ELSE IF equals(token, pair.token0) THEN token0Price(pair) ELSE token1Price(pair)

\* prices.slice(1).reduce((acc, cur) => acc.multiply(cur), prices[0])
RECURSIVE reduce(_, _, _)
reduce(prices, i, accumulator) ==
  IF i > Len(prices) THEN accumulator
  ELSE reduce(prices, i + 1, multiply(accumulator, prices[i]))

\* the value the midPrice getter computes when nothing is memoized
computeMidPrice(r) ==
  LET prices == [i \in 1..Len(r.pairs) |-> _getPrice(r.path[i], r.pairs[i])]
      reduced == reduce(prices, 2, prices[1])
  IN Price(r.input, r.output, reduced.denominator, reduced.numerator)

\* get midPrice(): the memoized value when there is one
midPrice(r) == IF r._midPrice # <<>> THEN r._midPrice[1] ELSE computeMidPrice(r)

PairLists == UNION { [1..n -> Pairs] : n \in 0..MaxHops }

RouteInit ==
  /\ rPairs \in PairLists
  /\ rInput \in Currencies
  /\ rOutput \in Currencies
  /\ route = <<>>
  /\ routeError = ""
  /\ rpc = "new"
  /\ midReads = <<>>

NewRoute ==
  /\ rpc = "new"
  /\ LET res == RouteConstructor(rPairs, rInput, rOutput)
     IN /\ route' = res.route
        /\ routeError' = res.error
  /\ rpc' = "done"
  /\ UNCHANGED <<rPairs, rInput, rOutput, midReads, routerVars, fetcherVars>>

ReadMidPrice ==
  /\ rpc = "done"
  /\ route # <<>>
  /\ Len(midReads) < MaxReads
  /\ LET p == midPrice(route[1])
     IN /\ midReads' = Append(midReads, p)
        /\ route' = <<[route[1] EXCEPT !._midPrice = <<p>>]>>
  /\ UNCHANGED <<rPairs, rInput, rOutput, routeError, rpc, routerVars, fetcherVars>>

(***************************************************************************)
(* Router                                                                  *)
(***************************************************************************)
HexDigits == <<"0", "1", "2", "3", "4", "5", "6", "7", "8", "9", "a", "b", "c", "d", "e", "f">>

\* JSBI toString(16): the digits of n, most significant first, as characters
RECURSIVE toString16(_)
toString16(n) ==
  IF n < 16 THEN <<HexDigits[n + 1]>>
  ELSE toString16(n \div 16) \o <<HexDigits[(n % 16) + 1]>>

\* toHex(currencyAmount): `0x${currencyAmount.quotient.toString(16)}`
toHex(currencyAmount) == <<"0", "x">> \o toString16(currencyAmount.quotient)

ZERO_HEX == <<"0", "x", "0">>

\* JSBI.BigInt of a "0x..." string: the number its hex digits denote
RECURSIVE BigIntDigits(_, _)
BigIntDigits(chars, acc) ==
  IF chars = <<>> THEN acc
  ELSE BigIntDigits(Tail(chars),
         acc * 16 + (CHOOSE d \in 0..15 : HexDigits[d + 1] = Head(chars)))
BigInt(hex) == BigIntDigits(SubSeq(hex, 3, Len(hex)), 0)

CurrencyAmount(currency, quotient) == [currency |-> currency, quotient |-> quotient]
Percent(numerator, denominator) == [numerator |-> numerator, denominator |-> denominator]

\* Trade.maximumAmountIn: the input amount itself for EXACT_INPUT, else the input
\* amount increased by the slippage fraction, rounded up
maximumAmountIn(t, slippage) ==
  IF t.tradeType = "EXACT_INPUT" THEN t.inputAmount
  ELSE CurrencyAmount(t.inputAmount.currency,
         (t.inputAmount.quotient * (slippage.denominator + slippage.numerator)
            + slippage.denominator - 1) \div slippage.denominator)

\* Trade.minimumAmountOut: the output amount itself for EXACT_OUTPUT, else the output
\* amount reduced by the slippage fraction, rounded down
minimumAmountOut(t, slippage) ==
  IF t.tradeType = "EXACT_OUTPUT" THEN t.outputAmount
  ELSE CurrencyAmount(t.outputAmount.currency,
         (t.outputAmount.quotient * (slippage.denominator - slippage.numerator))
            \div slippage.denominator)

\* recipient strings: a lower-case address, its checksummed form, and a string that
\* is no address
LowerRecipient == "0xab5801a7d398351b8be11c439e05c5b3259aec9b"
ChecksumRecipient == "0xAb5801a7D398351b8bE11C439e05C5B3259aeC9B"
BadRecipient == "not-an-address"
Recipients == {LowerRecipient, ChecksumRecipient, BadRecipient}

isAddress(address) == address \in {LowerRecipient, ChecksumRecipient}

\* validateAndParseAddress: the checksummed form of a valid address (throws otherwise)
validateAndParseAddress(address) == ChecksumRecipient

\* Payments.encodeUnwrapWETH9(amountMinimum, recipient)
encodeUnwrapWETH9(amountMinimum, recipient) ==
  [fn |-> "unwrapWETH9", amountMinimum |-> amountMinimum,
   recipient |-> validateAndParseAddress(recipient)]

\* Multicall.encodeMulticall(calldatas)
encodeMulticall(calldatas) == [fn |-> "multicall", data |-> calldatas]

\* Array.prototype.push(...items)
push(array, items) == array \o items

\* the switch with the EXACT_OUTPUT args in the EXACT_INPUT order
swapCaseSameOrder(t, amountIn, amountOut, path, curveIds, to, calldatas) ==
  [methodName |-> IF t.tradeType = "EXACT_INPUT" THEN "swapExactForVariable"
                  ELSE "swapVariableForExact",
   args |-> <<amountIn, amountOut, path, curveIds, to>>,
   calldatas |-> push(calldatas, <<>>)]

\* the switch on trade.tradeType: methodName, args and the calldatas after its push()
swapCase(t, amountIn, amountOut, path, curveIds, to, calldatas) ==
  IF t.tradeType = "EXACT_INPUT"
  THEN [methodName |-> "swapExactForVariable",
        args |-> <<amountIn, amountOut, path, curveIds, to>>,
        calldatas |-> push(calldatas, <<>>)]
  ELSE [methodName |-> "swapVariableForExact",
        args |-> <<amountOut, amountIn, path, curveIds, to>>,
        calldatas |-> push(calldatas, <<>>)]

\* value set to amountIn whatever the input currency
nativeValueAlways(etherIn, amountIn) == amountIn

\* value = etherIn ? amountIn : ZERO_HEX
nativeValue(etherIn, amountIn) == IF etherIn THEN amountIn ELSE ZERO_HEX

\* the ETHER_IN_OUT invariant left out
supportsEtherUnchecked(etherIn, etherOut) == TRUE

\* the condition of invariant(!(etherIn && etherOut), 'ETHER_IN_OUT')
supportsEther(etherIn, etherOut) == ~(etherIn /\ etherOut)

\* Router.swapCallParameters(trade, options): the message thrown, or "" and the result
swapCallParameters(t, o) ==
  LET etherIn == t.inputAmount.currency.isNative
      etherOut == t.outputAmount.currency.isNative
  IN IF ~supportsEther(etherIn, etherOut) THEN [error |-> "ETHER_IN_OUT", result |-> <<>>]
     ELSE IF ~isAddress(o.recipient) THEN [error |-> "INVALID_ADDRESS", result |-> <<>>]
     ELSE
       LET to == validateAndParseAddress(o.recipient)
           amountIn == toHex(maximumAmountIn(t, o.allowedSlippage))
           amountOut == toHex(minimumAmountOut(t, o.allowedSlippage))
           path == [i \in 1..Len(t.route.path) |-> t.route.path[i].address]
           curveIds == [i \in 1..Len(t.route.pairs) |-> t.route.pairs[i].curveId]
           value == nativeValue(etherIn, amountIn)
           swap == swapCase(t, amountIn, amountOut, path, curveIds, to, <<>>)
           calldatas ==
             IF etherOut
             THEN push(swap.calldatas, <<encodeUnwrapWETH9(BigInt(amountOut), o.recipient)>>)
             ELSE swap.calldatas
           batched == Len(calldatas) > 1
       IN [error |-> "",
           result |-> <<[methodName |-> IF batched THEN "multicall" ELSE swap.methodName,
                         args |-> IF batched THEN encodeMulticall(calldatas) ELSE swap.args,
                         value |-> value]>>]

TradeTypes == {"EXACT_INPUT", "EXACT_OUTPUT"}
AmountChoices == {0, 255, 4096}
SlippageChoices == {Percent(0, 1), Percent(1, 100)}

\* the pair snapshots trades are routed over
TradePairs == { p \in Pairs : p.chainId = 1 /\ p.reserve0 = 5 }
TradePairLists == UNION { [1..n -> TradePairs] : n \in 1..MaxHops }

\* the Routes a Trade can hold: those the Route constructor returns
TradeRoutes ==
  { RouteConstructor(ps, i, o).route[1] :
      <<ps, i, o>> \in { x \in TradePairLists \X Currencies \X Currencies :
                           RouteConstructor(x[1], x[2], x[3]).error = "" } }

\* a Trade: its amounts are in the route's input and output currencies
MkTrade(r, tradeType, inQ, outQ) ==
  [route |-> r, tradeType |-> tradeType,
   inputAmount |-> CurrencyAmount(r.input, inQ),
   outputAmount |-> CurrencyAmount(r.output, outQ)]

RouteIdle ==
  /\ rPairs = <<>>
  /\ rInput = Undefined
  /\ rOutput = Undefined
  /\ route = <<>>
  /\ routeError = ""
  /\ rpc = "idle"
  /\ midReads = <<>>

RouterIdle ==
  /\ trade = <<>>
  /\ options = <<>>
  /\ swapResult = <<>>
  /\ swapError = ""
  /\ spc = "idle"

RouterInputs ==
  /\ trade \in { <<MkTrade(r, tt, inQ, outQ)>> :
                   r \in TradeRoutes, tt \in TradeTypes,
                   inQ \in AmountChoices, outQ \in AmountChoices }
  /\ options \in { <<[allowedSlippage |-> s, recipient |-> rc]>> :
                     s \in SlippageChoices, rc \in Recipients }
  /\ swapResult = <<>>
  /\ swapError = ""
  /\ spc = "call"

CallSwapCallParameters ==
  /\ spc = "call"
  /\ LET res == swapCallParameters(trade[1], options[1])
     IN /\ swapResult' = res.result
        /\ swapError' = res.error
  /\ spc' = "done"
  /\ UNCHANGED <<trade, options, routeVars, fetcherVars>>

(***************************************************************************)
(* Fetcher                                                                 *)
(***************************************************************************)
AddressZero == 0

\* the factory's key of a pool: its two token addresses in order, and the curve
PoolKey(tokenA, tokenB, curveId) ==
  <<IF tokenA.address < tokenB.address THEN tokenA.address ELSE tokenB.address,
    IF tokenA.address < tokenB.address THEN tokenB.address ELSE tokenA.address,
    curveId>>

\* the address a pool is deployed at (Pair.getAddress derives the same address)
PoolAddress(key) == 1000 + 100 * key[3] + 10 * key[1] + key[2]

\* factory.getPair(tokenA.address, tokenB.address, curveId)
getPair(pools, tokenA, tokenB, curveId) ==
  IF PoolKey(tokenA, tokenB, curveId) \in pools
  THEN PoolAddress(PoolKey(tokenA, tokenB, curveId)) ELSE AddressZero

\* what the pool contracts answer: getReserves, swapFee and getCurrentAPrecise
OnChainReserves(address) == [rReserve0 |-> address + 1, rReserve1 |-> 2 * address]
OnChainSwapFee(address) == 3000
OnChainAPrecise(address) == 1000 * 100 + address

\* Token.sortsBefore
sortsBefore(tokenA, tokenB) == tokenA.address < tokenB.address

\* new Pair(currencyAmountA, currencyAmountB, curveId, swapFee, amplificationCoefficient):
\* the amounts are stored in token order; id is the identity of the new object
NewPair(id, amountA, amountB, curveId, swapFee, ampCoefficient) ==
  LET first == IF sortsBefore(amountA.currency, amountB.currency) THEN amountA ELSE amountB
      second == IF sortsBefore(amountA.currency, amountB.currency) THEN amountB ELSE amountA
  IN [id |-> id, token0 |-> first.currency, token1 |-> second.currency,
      curveId |-> curveId, reserve0 |-> first.quotient, reserve1 |-> second.quotient,
      swapFee |-> swapFee, amplificationCoefficient |-> ampCoefficient]

\* the six _fetchPairIfExists calls of fetchRelevantPairs, in the order they are awaited
Queries(a) ==
  <<[tokenA |-> a.tokenA, tokenB |-> a.tokenB, curveId |-> 0],
    [tokenA |-> a.tokenA, tokenB |-> a.tokenB, curveId |-> 1],
    [tokenA |-> a.tokenA, tokenB |-> WETH9(a.chainId), curveId |-> 0],
    [tokenA |-> a.tokenA, tokenB |-> WETH9(a.chainId), curveId |-> 1],
    [tokenA |-> a.tokenB, tokenB |-> WETH9(a.chainId), curveId |-> 0],
    [tokenA |-> a.tokenB, tokenB |-> WETH9(a.chainId), curveId |-> 1]>>

\* the AddressZero test left out
pairExistsAlways(pair) == TRUE

\* if (pair === AddressZero) return null
pairExists(pair) == ~(pair = AddressZero)

\* the curve test inverted
isStableInverted(curveId) == curveId = 0

\* if (curveId == 1): the amplification coefficient is fetched
isStable(curveId) == curveId = 1

\* Array.filter(address => address != null) over results that are <<>> (null) or <<Pair>>
RECURSIVE filterNotNull(_)
filterNotNull(list) ==
  IF list = <<>> THEN <<>>
  ELSE IF Head(list) # <<>> THEN <<Head(list)>> \o filterNotNull(Tail(list))
  ELSE filterNotNull(Tail(list))

\* [...new Set(list)]: the first occurrence of every object, in order
RECURSIVE dedupe(_, _)
dedupe(list, seen) ==
  IF list = <<>> THEN <<>>
  ELSE IF Head(list) \in seen THEN dedupe(Tail(list), seen)
  ELSE <<Head(list)>> \o dedupe(Tail(list), seen \cup {Head(list)})

\* the value fetchRelevantPairs returns from the six awaited results
relevantPairs(s) ==
  dedupe(filterNotNull(<<s[2], s[1], s[3], s[4], s[5], s[6]>>), {})

FetchTokens == {TokA, TokW, TokB, TokX}
FetchCurveIds == {0, 1, 2}

FetchArgs ==
  { [chainId |-> c, tokenA |-> ta, tokenB |-> tb, sameObject |-> so, curveId |-> cv] :
      c \in {1, 2}, ta \in FetchTokens, tb \in FetchTokens, so \in BOOLEAN,
      cv \in FetchCurveIds }

\* the pools a call can ask about
KeysOf(op, a) ==
  { k \in ( IF op = "fetchRelevantPairs"
            THEN { PoolKey(Queries(a)[i].tokenA, Queries(a)[i].tokenB, Queries(a)[i].curveId) :
                     i \in 1..6 }
            ELSE { PoolKey(a.tokenA, a.tokenB, a.curveId) } ) : k[1] # k[2] }

FetcherIdle ==
  /\ fOp = "none"
  /\ fArgs = <<>>
  /\ fpc = "idle"
  /\ fK = 0
  /\ slots = <<>>
  /\ frame = <<>>
  /\ fResult = <<>>
  /\ fError = ""
  /\ created = {}
  /\ creations = 0
  /\ calls = <<>>
  /\ promises = <<>>

FetcherInputs ==
  /\ fOp \in {"fetchRelevantPairs", "fetchPairData"}
  /\ fArgs \in { <<a>> : a \in { x \in FetchArgs :
                    /\ (x.sameObject => x.tokenA = x.tokenB)
                    /\ (fOp = "fetchRelevantPairs" => x.curveId = 0)
                    /\ (fOp = "fetchPairData" => x.chainId = 1 /\ ~x.sameObject) } }
  /\ created \in SUBSET KeysOf(fOp, fArgs[1])
  /\ fpc = "start"
  /\ fK = 0
  /\ slots = <<>>
  /\ frame = <<>>
  /\ fResult = <<>>
  /\ fError = ""
  /\ creations = 0
  /\ calls = <<>>
  /\ promises = <<>>

\* the call rejects with message
Reject(message) ==
  /\ fpc' = "failed"
  /\ fError' = message
  /\ frame' = <<>>
  /\ UNCHANGED <<fK, slots, fResult>>

\* fetchPairData up to its first await: the CHAIN_ID invariant, Pair.getAddress, and
\* the getReserves read it then waits for
EnterFetchPairData(tokenA, tokenB, curveId, k) ==
  IF ~(tokenA.chainId = tokenB.chainId) THEN Reject("CHAIN_ID")
  ELSE IF tokenA.address = tokenB.address THEN Reject("ADDRESSES")
  ELSE /\ fpc' = "getReserves"
       /\ frame' = <<[tokenA |-> tokenA, tokenB |-> tokenB, curveId |-> curveId,
                      address |-> PoolAddress(PoolKey(tokenA, tokenB, curveId)),
                      balances |-> <<>>, swapFee |-> <<>>]>>
       /\ fK' = k
       /\ UNCHANGED <<slots, fResult, fError>>

\* fetchRelevantPairs once the results in s are known: the next _fetchPairIfExists
\* call, or the filtered and de-duplicated list
Continue(s) ==
  /\ slots' = s
  /\ frame' = <<>>
  /\ fError' = fError
  /\ IF Len(s) < 6
     THEN fpc' = "getPair" /\ fK' = Len(s) + 1 /\ fResult' = fResult
     ELSE fpc' = "done" /\ fK' = fK /\ fResult' = <<relevantPairs(s)>>

\* fetchPairData returns pair: to its caller, or into the awaiting _fetchPairIfExists
Return(pair) ==
  IF fOp = "fetchPairData"
  THEN /\ fpc' = "done"
       /\ fResult' = <<pair>>
       /\ frame' = <<>>
       /\ UNCHANGED <<fK, slots, fError>>
  ELSE Continue(Append(slots, <<pair>>))

\* the identity of the next Pair object
NextId == Cardinality({i \in 1..Len(slots) : slots[i] # <<>>}) + 1

\* the synchronous start of the called method, up to its first await
FetchStart ==
  /\ fpc = "start"
  /\ LET a == fArgs[1]
     IN IF fOp = "fetchRelevantPairs"
        THEN IF ~(a.tokenA.chainId = a.tokenB.chainId) THEN Reject("CHAIN_ID")
             ELSE IF ~(~a.sameObject) THEN Reject("SAME_TOKEN")
             ELSE Continue(<<>>)
        ELSE EnterFetchPairData(a.tokenA, a.tokenB, a.curveId, 0)
  /\ UNCHANGED <<fOp, fArgs, created, creations, calls, promises, routeVars, routerVars>>

\* _fetchPairIfExists: factory.getPair answers
GetPairResolves ==
  /\ fpc = "getPair"
  /\ LET q == Queries(fArgs[1])[fK]
         pair == getPair(created, q.tokenA, q.tokenB, q.curveId)
     IN /\ calls' = Append(calls, [method |-> "getPair", query |-> fK, address |-> pair,
                                   answer |-> pair])
        /\ IF ~pairExists(pair) THEN Continue(Append(slots, <<>>))
           ELSE EnterFetchPairData(q.tokenA, q.tokenB, q.curveId, fK)
  /\ UNCHANGED <<fOp, fArgs, created, creations, promises, routeVars, routerVars>>

\* fetchPairData: pair.getReserves() answers (it reverts when no pool is deployed
\* at the address); swapFee() is then called and not awaited
GetReservesResolves ==
  /\ fpc = "getReserves"
  /\ LET f == frame[1]
         deployed == \E key \in created : PoolAddress(key) = f.address
         reserves == OnChainReserves(f.address)
         balances == IF sortsBefore(f.tokenA, f.tokenB)
                     THEN <<reserves.rReserve0, reserves.rReserve1>>
                     ELSE <<reserves.rReserve1, reserves.rReserve0>>
         swapFee == [promise |-> Len(promises) + 1]
     IN IF ~deployed
        THEN /\ calls' = Append(calls, [method |-> "getReserves", query |-> fK,
                                        address |-> f.address, answer |-> -1])
             /\ Reject("CALL_EXCEPTION")
             /\ UNCHANGED promises
        ELSE /\ calls' = Append(calls, [method |-> "getReserves", query |-> fK,
                                        address |-> f.address, answer |-> reserves.rReserve0])
             /\ promises' = Append(promises, [state |-> "pending", address |-> f.address,
                                              value |-> 0])
             /\ IF isStable(f.curveId)
                THEN /\ fpc' = "getCurrentAPrecise"
                     /\ frame' = <<[f EXCEPT !.balances = balances, !.swapFee = <<swapFee>>]>>
                     /\ UNCHANGED <<fK, slots, fResult, fError>>
                ELSE Return(NewPair(NextId,
                                    CurrencyAmount(f.tokenA, balances[1]),
                                    CurrencyAmount(f.tokenB, balances[2]),
                                    f.curveId, swapFee, <<>>))
  /\ UNCHANGED <<fOp, fArgs, created, creations, routeVars, routerVars>>

\* fetchPairData: getCurrentAPrecise() answers and the Pair is constructed
GetCurrentAPreciseResolves ==
  /\ fpc = "getCurrentAPrecise"
  /\ LET f == frame[1]
         ampCoefficient == OnChainAPrecise(f.address)
     IN /\ calls' = Append(calls, [method |-> "getCurrentAPrecise", query |-> fK,
                                   address |-> f.address, answer |-> ampCoefficient])
        /\ Return(NewPair(NextId,
                          CurrencyAmount(f.tokenA, f.balances[1]),
                          CurrencyAmount(f.tokenB, f.balances[2]),
                          f.curveId, f.swapFee[1], <<ampCoefficient>>))
  /\ UNCHANGED <<fOp, fArgs, created, creations, promises, routeVars, routerVars>>

\* a swapFee() read that was issued is answered
SwapFeeResolves ==
  /\ \E i \in 1..Len(promises) :
       /\ promises[i].state = "pending"
       /\ \A j \in 1..(i - 1) : promises[j].state = "fulfilled"
       /\ promises' = [promises EXCEPT ![i] = [state |-> "fulfilled", address |-> @.address,
                                               value |-> OnChainSwapFee(@.address)]]
  /\ UNCHANGED <<fOp, fArgs, fpc, fK, slots, frame, fResult, fError, created, creations,
                 calls, routeVars, routerVars>>

\* the provider fails the read the call is waiting for
ProviderError ==
  /\ fpc \in {"getPair", "getReserves", "getCurrentAPrecise"}
  /\ Reject("NETWORK_ERROR")
  /\ UNCHANGED <<fOp, fArgs, created, creations, calls, promises, routeVars, routerVars>>

\* somebody creates a pool while the call is running
CreatePool ==
  /\ fpc \in {"getPair", "getReserves", "getCurrentAPrecise"}
  /\ creations < MaxCreations
  /\ \E key \in KeysOf(fOp, fArgs[1]) \ created : created' = created \cup {key}
  /\ creations' = creations + 1
  /\ UNCHANGED <<fOp, fArgs, fpc, fK, slots, frame, fResult, fError, calls, promises,
                 routeVars, routerVars>>

FetcherNext ==
  \/ FetchStart
  \/ GetPairResolves
  \/ GetReservesResolves
  \/ GetCurrentAPreciseResolves
  \/ SwapFeeResolves
  \/ ProviderError
  \/ CreatePool

InitRoute == RouteInit /\ RouterIdle /\ FetcherIdle
InitRouter == RouterInputs /\ RouteIdle /\ FetcherIdle
InitFetcher == FetcherInputs /\ RouteIdle /\ RouterIdle

RouteNext == NewRoute \/ ReadMidPrice
RouterNext == CallSwapCallParameters

SpecRoute == InitRoute /\ [][RouteNext]_vars
SpecRouter == InitRouter /\ [][RouterNext]_vars
SpecFetcher == InitFetcher /\ [][FetcherNext]_vars

(***************************************************************************)
(* Properties of Router.swapCallParameters                                 *)
(***************************************************************************)
EtherIn == trade[1].inputAmount.currency.isNative
EtherOut == trade[1].outputAmount.currency.isNative
MaxInQuotient == maximumAmountIn(trade[1], options[1].allowedSlippage).quotient
MinOutQuotient == minimumAmountOut(trade[1], options[1].allowedSlippage).quotient

\* the number a string of hex digits denotes, by position
HexValue(chars) ==
  LET digit(c) == CHOOSE d \in 0..15 : HexDigits[d + 1] = c
      val[i \in 0..Len(chars)] == IF i = 0 THEN 0 ELSE val[i - 1] * 16 + digit(chars[i])
  IN val[Len(chars)]

\* h is the canonical "0x" hex string of n: prefix, digits of n, no leading zero
IsHexOf(h, n) ==
  /\ Len(h) >= 3
  /\ h[1] = "0" /\ h[2] = "x"
  /\ \A i \in 3..Len(h) : \E d \in 1..16 : HexDigits[d] = h[i]
  /\ (Len(h) > 3 => h[3] # "0")
  /\ HexValue(SubSeq(h, 3, Len(h))) = n

PathAddresses == [i \in 1..Len(trade[1].route.path) |-> trade[1].route.path[i].address]
PairCurveIds == [i \in 1..Len(trade[1].route.pairs) |-> trade[1].route.pairs[i].curveId]

\* C1: for a trade with non-native input and native output (and a valid recipient),
\* the result is the 'multicall' method wrapping exactly two calls, the swap call
\* first and the unwrap-native call for minimumAmountOut to the recipient second.
C1_NativeOutIsMulticall ==
  (spc = "done" /\ ~EtherIn /\ EtherOut /\ isAddress(options[1].recipient)) =>
    /\ swapResult # <<>>
    /\ swapResult[1].methodName = "multicall"
    /\ Len(swapResult[1].args.data) = 2
    /\ swapResult[1].args.data[2].fn = "unwrapWETH9"
    /\ swapResult[1].args.data[2].amountMinimum = MinOutQuotient

\* C2: for a trade whose output is not native (and a valid recipient) the result is
\* a single non-batched call: EXACT_INPUT gives swapExactForVariable with args
\* (amountIn, amountOut, path, curveIds, recipient), EXACT_OUTPUT gives
\* swapVariableForExact with args (amountOut, amountIn, path, curveIds, recipient),
\* amountIn and amountOut being the hex of maximumAmountIn and minimumAmountOut,
\* path the route's token addresses in order and curveIds the pairs' curve ids.
C2_NonNativeOutSingleCall ==
  (spc = "done" /\ ~EtherOut /\ isAddress(options[1].recipient)) =>
    /\ swapResult # <<>>
    /\ swapError = ""
    /\ LET r == swapResult[1]
           inAt == IF trade[1].tradeType = "EXACT_INPUT" THEN 1 ELSE 2
           outAt == IF trade[1].tradeType = "EXACT_INPUT" THEN 2 ELSE 1
       IN /\ r.methodName = (IF trade[1].tradeType = "EXACT_INPUT"
                             THEN "swapExactForVariable" ELSE "swapVariableForExact")
          /\ Len(r.args) = 5
          /\ IsHexOf(r.args[inAt], MaxInQuotient)
          /\ IsHexOf(r.args[outAt], MinOutQuotient)
          /\ r.args[3] = PathAddresses
          /\ r.args[4] = PairCurveIds
          /\ r.args[5] = ChecksumRecipient

\* an EXACT_OUTPUT trade over two hops whose slippage-adjusted input differs from
\* its output, encoded for a lower-case recipient
C2_Witness ==
  /\ spc = "done" /\ swapResult # <<>> /\ ~EtherOut
  /\ trade[1].tradeType = "EXACT_OUTPUT"
  /\ Len(trade[1].route.pairs) = 2
  /\ options[1].recipient = LowerRecipient
  /\ MaxInQuotient = 258 /\ MinOutQuotient = 4096
  /\ swapResult[1].methodName = "swapVariableForExact"

\* C3: in every result the value field is the hex of maximumAmountIn when the input
\* currency is native and '0x0' when it is not, whatever the trade type and output.
C3_ValueField ==
  (spc = "done" /\ swapResult # <<>>) =>
    IF EtherIn THEN IsHexOf(swapResult[1].value, MaxInQuotient)
    ELSE swapResult[1].value = <<"0", "x", "0">>

\* a result for a native-input EXACT_OUTPUT trade with a non-zero slippage-adjusted input
C3_Witness ==
  /\ spc = "done" /\ swapResult # <<>> /\ EtherIn
  /\ trade[1].tradeType = "EXACT_OUTPUT"
  /\ MaxInQuotient = 4137
  /\ swapResult[1].value = <<"0", "x", "1", "0", "2", "9">>

\* C4: a trade with native input and native output fails with ETHER_IN_OUT and
\* returns no SwapParameters, whatever trade type, slippage and recipient.
C4_EtherInOutRejected ==
  (spc = "done" /\ EtherIn /\ EtherOut) =>
    /\ swapError = "ETHER_IN_OUT"
    /\ swapResult = <<>>

\* the call was made with native in and out and a recipient that is no address
C4_Witness ==
  /\ spc = "done" /\ EtherIn /\ EtherOut
  /\ options[1].recipient = BadRecipient
  /\ swapError = "ETHER_IN_OUT"

(***************************************************************************)
(* Properties of Route                                                     *)
(***************************************************************************)
TokensOf(pair) == {pair.token0, pair.token1}

\* the token the walk stands on before hop i: the wrapped input, then at each hop
\* the other token of the pair
Walk(pairs, input) ==
  LET w[i \in 1..(Len(pairs) + 1)] ==
        IF i = 1 THEN wrapped(input)
        ELSE IF w[i - 1] = pairs[i - 1].token0 THEN pairs[i - 1].token1
             ELSE pairs[i - 1].token0
  IN w

\* the message of the first violated check, in the order PAIRS, CHAIN_IDS, INPUT,
\* OUTPUT, PATH; "" when none is violated
FirstViolated(pairs, input, output) ==
  IF pairs = <<>> THEN "PAIRS"
  ELSE IF \E i, j \in 1..Len(pairs) : pairs[i].chainId # pairs[j].chainId THEN "CHAIN_IDS"
  ELSE IF wrapped(input) \notin TokensOf(pairs[1]) THEN "INPUT"
  ELSE IF wrapped(output) \notin TokensOf(pairs[Len(pairs)]) THEN "OUTPUT"
  ELSE IF \E i \in 1..Len(pairs) : Walk(pairs, input)[i] \notin TokensOf(pairs[i]) THEN "PATH"
  ELSE ""

\* C5: the constructor fails with the error of the first violated check in the order
\* PAIRS, CHAIN_IDS, INPUT, OUTPUT, PATH, produces no Route on failure, and
\* produces one when no check is violated.
C5_FirstViolatedCheck ==
  (rpc = "done") =>
    /\ routeError = FirstViolated(rPairs, rInput, rOutput)
    /\ (routeError # "" <=> route = <<>>)

\* the pairs are on two chains while input and output are in no pair either: the
\* constructor reported the chain ids
C5_Witness ==
  /\ rpc = "done" /\ routeError = "CHAIN_IDS" /\ route = <<>>
  /\ wrapped(rInput) \notin TokensOf(rPairs[1])
  /\ wrapped(rOutput) \notin TokensOf(rPairs[Len(rPairs)])

\* C6: every constructed Route is a connected path from input to output: path starts
\* at the wrapped input, ends at the wrapped output, and consecutive pairs share
\* exactly one token.
C6_ConnectedInputToOutput ==
  (rpc = "done" /\ route # <<>>) =>
    LET r == route[1]
    IN /\ r.path[1] = wrapped(r.input)
       /\ r.path[Len(r.path)] = wrapped(r.output)
       /\ \A i \in 1..(Len(r.pairs) - 1) :
            Cardinality(TokensOf(r.pairs[i]) \cap TokensOf(r.pairs[i + 1])) = 1

\* C7: for every constructed Route, path has length pairs.length + 1, pairs[i]
\* contains path[i] and path[i+1], and path[i+1] is the token of pairs[i] other
\* than path[i].
C7_PathFollowsPairs ==
  (rpc = "done" /\ route # <<>>) =>
    LET r == route[1]
    IN /\ Len(r.path) = Len(r.pairs) + 1
       /\ \A i \in 1..Len(r.pairs) :
            /\ r.path[i] \in TokensOf(r.pairs[i])
            /\ r.path[i + 1] \in TokensOf(r.pairs[i])
            /\ r.path[i + 1] # r.path[i]

\* a two-hop Route entered through token1 of its first pair
C7_Witness ==
  /\ rpc = "done" /\ route # <<>>
  /\ Len(route[1].pairs) = 2
  /\ route[1].path[1] = route[1].pairs[1].token1
  /\ route[1].path[3] # route[1].path[1]

\* Pair.reserveOf(token) as a raw quantity
ReserveOf(pair, token) == IF token = pair.token0 THEN pair.reserve0 ELSE pair.reserve1

\* the product over the hops of the reserves at offset k of the path (0: the hop's
\* input side, 1: its output side)
ReserveProduct(r, k) ==
  LET prod[i \in 0..Len(r.pairs)] ==
        IF i = 0 THEN 1 ELSE prod[i - 1] * ReserveOf(r.pairs[i], r.path[i + k])
  IN prod[Len(r.pairs)]

AllConstantProduct(r) == \A i \in 1..Len(r.pairs) : r.pairs[i].curveId = 0

\* C8: for a Route of constant-product pairs every read of midPrice, first and
\* repeated, returns the same price, from the route input to the route output, whose
\* ratio is the product in path order of reserve(path[i+1]) / reserve(path[i]).
C8_MidPriceIsProductOfSpotPrices ==
  (route # <<>> /\ AllConstantProduct(route[1])) =>
    \A k \in 1..Len(midReads) :
      /\ midReads[k] = midReads[1]
      /\ midReads[k].baseCurrency = route[1].input
      /\ midReads[k].quoteCurrency = route[1].output
      /\ midReads[k].numerator = ReserveProduct(route[1], 1)
      /\ midReads[k].denominator = ReserveProduct(route[1], 0)

\* midPrice was read twice on a two-hop constant-product route whose second hop is
\* walked from token1 to token0 and whose two pools hold different reserves
C8_Witness ==
  /\ route # <<>> /\ AllConstantProduct(route[1])
  /\ Len(route[1].pairs) = 2
  /\ Len(midReads) = 2
  /\ route[1].path[2] = route[1].pairs[2].token1
  /\ route[1].pairs[1].reserve0 # route[1].pairs[2].reserve0

(***************************************************************************)
(* Properties of Fetcher                                                   *)
(***************************************************************************)
\* the reads of pool data (reserves, amplification) that were answered
DataReads == { i \in 1..Len(calls) : calls[i].method \in {"getReserves", "getCurrentAPrecise"} }

\* the factory answered call k of fetchRelevantPairs with a non-zero address before
\* position i of the log
AnsweredNonZero(k, i) ==
  \E j \in 1..(i - 1) : /\ calls[j].method = "getPair"
                        /\ calls[j].query = k
                        /\ calls[j].answer # 0

\* C9: fetchRelevantPairs returns only created pairs: every element of the result is
\* a Pair of one of the six queried combinations for which getPair returned a
\* non-zero address, no element is null, and pool data is never read for a
\* combination for which getPair returned the zero address.
C9_OnlyCreatedPairs ==
  (fOp = "fetchRelevantPairs") =>
    /\ \A i \in DataReads :
         /\ AnsweredNonZero(calls[i].query, i)
         /\ \E j \in 1..(i - 1) : /\ calls[j].method = "getPair"
                                  /\ calls[j].query = calls[i].query
                                  /\ calls[j].answer = calls[i].address
    /\ (fpc = "done") =>
         \A i \in 1..Len(fResult[1]) :
           /\ fResult[1][i] # <<>>
           /\ \E k \in 1..6 :
                LET q == Queries(fArgs[1])[k]
                    pair == fResult[1][i][1]
                IN /\ {pair.token0, pair.token1} = {q.tokenA, q.tokenB}
                   /\ pair.curveId = q.curveId
                   /\ AnsweredNonZero(k, Len(calls) + 1)

\* fetchRelevantPairs returned three pairs after the factory answered three of its
\* six questions with the zero address
C9_Witness ==
  /\ fOp = "fetchRelevantPairs" /\ fpc = "done"
  /\ Len(fResult[1]) = 3
  /\ Cardinality({ j \in 1..Len(calls) : calls[j].method = "getPair" /\ calls[j].answer = 0 }) = 3

\* the Pairs fetchPairData has returned, each with the call of fetchRelevantPairs it
\* was made for (0 when fetchPairData was called directly)
ReturnedPairs ==
  { <<slots[k][1], k>> : k \in { i \in 1..Len(slots) : slots[i] # <<>> } } \cup
  (IF fOp = "fetchPairData" /\ fpc = "done" THEN {<<fResult[1], 0>>} ELSE {})

AmpReads(k) ==
  { i \in 1..Len(calls) : calls[i].method = "getCurrentAPrecise" /\ calls[i].query = k }

\* C10: a Pair returned by fetchPairData for curveId 1 carries as amplification
\* coefficient the value read from the stable pair contract (not null); one returned
\* for curveId 0 carries null and the amplification getter was not called for it.
C10_CurveInvariant ==
  \A rp \in ReturnedPairs :
    LET pair == rp[1]
        k == rp[2]
    IN /\ (pair.curveId = 1) =>
            /\ pair.amplificationCoefficient # <<>>
            /\ \E i \in AmpReads(k) :
                 /\ calls[i].address = PoolAddress(PoolKey(pair.token0, pair.token1, 1))
                 /\ calls[i].answer = pair.amplificationCoefficient[1]
                 /\ calls[i].answer = OnChainAPrecise(calls[i].address)
       /\ (pair.curveId = 0) =>
            /\ pair.amplificationCoefficient = <<>>
            /\ AmpReads(k) = {}

\* fetchPairData was called for a stable pool, given tokenB before tokenA in address
\* order, and returned its Pair
C10_Witness ==
  /\ fOp = "fetchPairData" /\ fpc = "done"
  /\ fArgs[1].curveId = 1
  /\ fArgs[1].tokenB.address < fArgs[1].tokenA.address
  /\ fResult[1].amplificationCoefficient # <<>>

\* the swapFee() read a Pair's swapFee field refers to
SwapFeeRead(pair) == promises[pair.swapFee.promise]

\* C11: a Pair built by fetchPairData carries as swapFee the value its pool's
\* swapFee() read resolved to: whenever a Pair has been returned, the swap-fee read
\* it was built from has resolved, to the fee of that pool, as have the reserves
\* read and (for curveId 1) the amplification read.
C11_SwapFeeResolvedBeforePair ==
  \A rp \in ReturnedPairs :
    LET pair == rp[1]
        k == rp[2]
        address == PoolAddress(PoolKey(pair.token0, pair.token1, pair.curveId))
    IN /\ SwapFeeRead(pair).state = "fulfilled"
       /\ SwapFeeRead(pair).address = address
       /\ SwapFeeRead(pair).value = OnChainSwapFee(address)
       /\ \E i \in 1..Len(calls) : /\ calls[i].method = "getReserves"
                                   /\ calls[i].query = k
                                   /\ calls[i].address = address
       /\ (pair.curveId = 1 => AmpReads(k) # {})

\* two Pairs describe the same pool: same two tokens and same curve
SamePool(p, q) == p.token0 = q.token0 /\ p.token1 = q.token1 /\ p.curveId = q.curveId

\* C12: the list fetchRelevantPairs returns for two different tokens is
\* de-duplicated: it never holds two entries for the same pool (same two tokens and
\* same curveId), also when tokenA or tokenB is the chain's wrapped native token.
C12_NoDuplicatePools ==
  (fOp = "fetchRelevantPairs" /\ fpc = "done"
     /\ fArgs[1].tokenA.address # fArgs[1].tokenB.address) =>
    \A i, j \in 1..Len(fResult[1]) :
      (i # j) => ~SamePool(fResult[1][i][1], fResult[1][j][1])

====
